---- MODULE Spec2Model ----
(***************************************************************************)
(* Model of the oil price pipeline of oil_report_telegram.py / App.py:     *)
(* the two source fetchers (fetch_stooq, fetch_fred_close_series), the     *)
(* fallback orchestrator (fetch_prices) and the summary builder with its   *)
(* short-history reconciliation (build_summary_block), the indicators, the *)
(* chart and table functions, tg_call, and the report over both tickers.   *)
(*                                                                         *)
(* A DataFrame is a record [st, rows]: st = "df" with a sequence of rows,  *)
(* st = "none" for Python's None, st = "raise" for an exception that left  *)
(* the function.  A cell is an integer; NaN / NaT are the missing values   *)
(* pandas produces with errors="coerce".                                   *)
(***************************************************************************)
EXTENDS Integers, Sequences, FiniteSets, TLC

VARIABLES
  pc,        \* position of the running handler or function, e.g. "fetch_stooq", "summary", "done", "raised"
  tkr,       \* the ticker the handler was called for
  days,      \* the window length passed to fetch_prices
  gets,      \* log of the HTTP GETs issued so far, in order
  stqTry,    \* the Stooq attempt of fetch_prices: [made, kind, nraw, out], nraw the rows of the raw response
  fredTry,   \* the FRED attempt of fetch_prices: [made, kind, nraw, out], nraw the rows of the raw response
  res,       \* the dict returned by fetch_prices: [source, df, ohlc]
  sum,       \* what build_summary_block did: [kind, df0, fredTry, df, close, html]
  imgs,      \* what the chart and table functions drew, in order
  tg,        \* the running tg_call: [retries, i, posts, last_err]
  results,   \* the report over both tickers: what fetch_prices returned for each ticker so far
  log,       \* the report over both tickers: the work done so far, in order
  tmpfiles,  \* the report's list of the image paths it recorded
  disk       \* the image files that exist in the temporary directory

vars == <<pc, tkr, days, gets, stqTry, fredTry, res, sum, imgs,
          tg, results, log, tmpfiles, disk>>

\* the variables of tg_call and of the report over both tickers
flow == <<tg, results, log, tmpfiles, disk>>
\* no tg_call is running and no report over both tickers has begun
NoCall == [retries |-> 0, i |-> 0, posts |-> <<>>, last_err |-> "None"]
NoFlow == tg = NoCall /\ results = <<>> /\ log = <<>> /\ tmpfiles = <<>> /\ disk = {}

-----------------------------------------------------------------------------
(* Bounds of the explored inputs *)

\* rows of a short raw response
MaxLen == 2
\* calendar dates 1..MaxDate appear in short raw responses
MaxDate == 2
\* a window length shorter than the histories, tried besides the callers'
\* max(FETCH_DAYS, CHART_WINDOW_DAYS)
ShortWindow == 1
\* the prices that appear in raw responses
Prices == {1, 2}
\* closes 0..MaxClose and step sizes 1..MaxClose of the close series given to the indicators
MaxClose == 2

-----------------------------------------------------------------------------
(* Program constants *)

CHART_WINDOW_DAYS == 14
FETCH_DAYS == 60
\* build_summary_block: "if len(close) < 40"
RECONCILE_MIN_LEN == 40

\* missing float (np.nan), missing date (pd.NaT), and an unparseable raw cell
NaN == -1
NaT == 0
BAD == -2

STQ_SYMBOLS == [t \in {"WTI", "BRENT"} |-> IF t = "WTI" THEN "cl.f" ELSE "brn.f"]
FRED_IDS == [t \in {"WTI", "BRENT"} |-> IF t = "WTI" THEN "DCOILWTICO" ELSE "DCOILBRENTEU"]

Max(a, b) == IF a >= b THEN a ELSE b
Min(a, b) == IF a <= b THEN a ELSE b

\* the days argument: every caller passes max(FETCH_DAYS, CHART_WINDOW_DAYS)
CallerDays == Max(FETCH_DAYS, CHART_WINDOW_DAYS)
\* the calls explored, as <<ticker, days>>: the two configured tickers, a ticker that has
\* no symbol in either table, the callers' window and a short one
Calls == {<<"WTI", CallerDays>>, <<"BRENT", ShortWindow>>, <<"GOLD", ShortWindow>>}

-----------------------------------------------------------------------------
(* DataFrames *)

None == [st |-> "none", rows |-> <<>>]
Raised == [st |-> "raise", rows |-> <<>>]
Frame(rows) == [st |-> "df", rows |-> rows]

\* "x is not None and len(x) > 0"
NonEmpty_offbyone(f) == f.st = "df" /\ Len(f.rows) > 1
NonEmpty(f) == f.st = "df" /\ Len(f.rows) > 0

\* df.tail(n) for n >= 0: the last n rows, the whole frame when it has fewer
DfTail_head(rows, n) == IF n >= Len(rows) THEN rows ELSE SubSeq(rows, 1, n)
DfTail(rows, n) == IF n >= Len(rows) THEN rows ELSE SubSeq(rows, Len(rows) - n + 1, Len(rows))

\* the Close column of a sequence of rows, and the set of its dates
Dates(rows) == [i \in 1..Len(rows) |-> rows[i].Date]
Closes(rows) == [i \in 1..Len(rows) |-> rows[i].Close]
DateSet(rows) == {rows[i].Date : i \in 1..Len(rows)}

RECURSIVE Flatten(_)
Flatten(ss) == IF ss = <<>> THEN <<>> ELSE Head(ss) \o Flatten(Tail(ss))

\* the rows in ascending Date, rows of equal Date in the order they had
StableSort(rows) == SortSeq(rows, LAMBDA a, b : a.Date < b.Date)
\* rows i and i + 1 exchanged
SwapAt(rows, i) ==
  [j \in 1..Len(rows) |-> IF j = i THEN rows[i + 1] ELSE IF j = i + 1 THEN rows[i] ELSE rows[j]]
TiedPairs(rows) == {i \in 1..(Len(rows) - 1) : rows[i].Date = rows[i + 1].Date}

\* df.sort_values("Date"): the frames it can return.  kind defaults to "quicksort",
\* which does not promise the order of rows of equal Date.  numpy's quicksort finishes
\* runs of at most 17 elements by insertion sort, which keeps them in order; in a longer
\* frame two neighbouring rows of equal Date can come out exchanged.
sort_values(rows) ==
  LET s == StableSort(rows)
  IN {s} \cup (IF Len(s) > 17 THEN {SwapAt(s, i) : i \in TiedPairs(s)} ELSE {})

\* "x.copy().sort_values(...)", merge, dropna, tail: each returns a new frame, so the frame
\* f the caller passed is what it was, whatever rows the callee ended up working on
CallerFrame_inplace(f, worked) == Frame(worked)
CallerFrame(f, worked) == f

\* pd.to_datetime(..., errors="coerce") and pd.to_numeric(..., errors="coerce")
to_datetime(c) == IF c >= 1 THEN c ELSE NaT
to_numeric(c) == IF c >= 0 THEN c ELSE NaN

-----------------------------------------------------------------------------
(* What the network can answer to one GET *)

\* urlopen raised (timeout, DNS, HTTP 4xx/5xx), read_csv raised, or a CSV came back
FailKinds == {"neterr", "httperr", "badcsv"}

StooqRow(d, o, c) == [Date |-> d, Open |-> o, High |-> c, Low |-> c, Close |-> c]
RawStooqRows ==
  {StooqRow(d, c, c) : d \in 1..MaxDate, c \in Prices}
    \cup {StooqRow(BAD, 1, 1), StooqRow(1, BAD, BAD), StooqRow(1, BAD, 1)}

FredRow(d, v) == [Date |-> d, Value |-> v]
RawFredRows ==
  {FredRow(d, v) : d \in 1..MaxDate, v \in Prices}
    \cup {FredRow(BAD, 1), FredRow(1, BAD)}

\* short raw responses: up to MaxLen rows in any order, dates may repeat
ShortSeqs(S) == UNION {[1..n -> S] : n \in 0..MaxLen}

\* long histories around the reconciliation threshold
LongLens == {RECONCILE_MIN_LEN - 1, RECONCILE_MIN_LEN, RECONCILE_MIN_LEN + 1}
\* with dup, the two rows in the middle of the history carry the same date
LongDate(i, dup) == IF dup /\ i = (RECONCILE_MIN_LEN \div 2) + 1 THEN RECONCILE_MIN_LEN \div 2 ELSE i
LongStooq(n, dup) == [i \in 1..n |-> StooqRow(LongDate(i, dup), 1 + (i % 2), 1 + (i % 2))]
LongFred(n) == [i \in 1..n |-> FredRow(i, 1 + ((i + 1) % 2))]

StooqResponses ==
  {[kind |-> k, rows |-> <<>>] : k \in FailKinds \cup {"nocols"}}
    \cup {[kind |-> "ok", rows |-> r] : r \in ShortSeqs(RawStooqRows)}
    \cup {[kind |-> "ok", rows |-> LongStooq(n, dup)] : n \in LongLens, dup \in BOOLEAN}

FredResponses ==
  {[kind |-> k, rows |-> <<>>] : k \in FailKinds \cup {"nocols"}}
    \cup {[kind |-> "ok", rows |-> r] : r \in ShortSeqs(RawFredRows)}
    \cup {[kind |-> "ok", rows |-> LongFred(n)] : n \in LongLens}

-----------------------------------------------------------------------------
(* fetch_stooq *)

\* "except Exception as e: ... return None"
StooqExcept_reraise(kind) == Raised
StooqExcept(kind) == None

\* rename, to_datetime, dropna(Date), to_numeric, dropna(Close)
ParseStooq(rows) ==
  [i \in 1..Len(rows) |->
     [Date |-> to_datetime(rows[i].Date), Open |-> to_numeric(rows[i].Open),
      High |-> to_numeric(rows[i].High), Low |-> to_numeric(rows[i].Low),
      Close |-> to_numeric(rows[i].Close)]]

HasDate(r) == r.Date # NaT
HasClose(r) == r.Close # NaN

NormalizeStooq(rows) == SelectSeq(SelectSeq(ParseStooq(rows), HasDate), HasClose)

\* what fetch_stooq can return for a ticker that has a symbol, given the answer to its GET
fetch_stooq(raw) ==
  IF raw.kind \in FailKinds THEN {StooqExcept(raw.kind)}
  ELSE IF raw.kind = "nocols" THEN {None}
  ELSE {Frame(s) : s \in sort_values(NormalizeStooq(raw.rows))}

-----------------------------------------------------------------------------
(* fetch_fred_close_series *)

FredExcept(kind) == None

ParseFred(rows) ==
  [i \in 1..Len(rows) |->
     [Date |-> to_datetime(rows[i].Date), Close |-> to_numeric(rows[i].Value)]]

NormalizeFred(rows) == SelectSeq(SelectSeq(ParseFred(rows), HasDate), HasClose)

\* Open = Close.shift(1).fillna(Close), High = max(Open, Close), Low = min(Open, Close)
PseudoOHLC_own(s) ==
  [i \in 1..Len(s) |->
     [Date |-> s[i].Date, Open |-> s[i].Close, High |-> s[i].Close, Low |-> s[i].Close,
      Close |-> s[i].Close]]
PseudoOHLC(s) ==
  [i \in 1..Len(s) |->
     LET c == s[i].Close
         o == IF i = 1 THEN c ELSE s[i - 1].Close
     IN [Date |-> s[i].Date, Open |-> o, High |-> Max(o, c), Low |-> Min(o, c), Close |-> c]]

fetch_fred_close_series(raw) ==
  IF raw.kind \in FailKinds THEN {FredExcept(raw.kind)}
  ELSE IF raw.kind = "nocols" THEN {None}
  ELSE {Frame(PseudoOHLC(s)) : s \in sort_values(NormalizeFred(raw.rows))}

-----------------------------------------------------------------------------
(* fetch_prices *)

NoTry == [made |-> FALSE, kind |-> "none", nraw |-> 0, out |-> None]
\* the ticker has no symbol for the source: no GET is made, the fetch gives None
NoSymbol == [made |-> FALSE, kind |-> "nosym", nraw |-> 0, out |-> None]
\* every way a fetch with a symbol can go: the answer's kind and row count, and the
\* frame the fetcher makes of it
Attempt(raw, out) == [made |-> TRUE, kind |-> raw.kind, nraw |-> Len(raw.rows), out |-> out]
StooqAttempts == UNION {{Attempt(raw, out) : out \in fetch_stooq(raw)} : raw \in StooqResponses}
FredAttempts ==
  UNION {{Attempt(raw, out) : out \in fetch_fred_close_series(raw)} : raw \in FredResponses}
NoResult == [source |-> "none", df |-> None, ohlc |-> None]
NoSummary == [kind |-> "none", df0 |-> <<>>, fredTry |-> NoTry, df |-> <<>>, close |-> <<>>,
              html |-> <<>>]

GET(src, sym, by) == [src |-> src, sym |-> sym, by |-> by]

\* the calls of http_get_bytes one invocation of a fetcher makes for ticker t: one when
\* the ticker has a symbol in the source's table, whatever the answer; none otherwise
HttpGets_retry(a, src, table, t, by) ==
  IF ~a.made THEN <<>>
  ELSE IF a.kind \in FailKinds THEN <<GET(src, table[t], by), GET(src, table[t], by)>>
  ELSE <<GET(src, table[t], by)>>
HttpGets(a, src, table, t, by) == IF a.made THEN <<GET(src, table[t], by)>> ELSE <<>>

\* {"source": ..., "df": x, "ohlc": x.tail(days).copy()}
SourceResult(src, f, d) == [source |-> src, df |-> f, ohlc |-> Frame(DfTail(f.rows, d))]

\* "if stq is not None and len(stq) > 0: ... return": where fetch_prices goes after step 1
AfterStooq_noreturn(out) == "fetch_fred"
AfterStooq(out) == IF NonEmpty(out) THEN "summary" ELSE "fetch_fred"

\* 1) STQ: fetch_stooq (no GET without a symbol), and the return when it gave a non-empty frame
FetchPricesStooq ==
  /\ pc = "fetch_stooq"
  /\ \E a \in (IF tkr \in DOMAIN STQ_SYMBOLS THEN StooqAttempts ELSE {NoSymbol}) :
       LET out == a.out
       IN /\ stqTry' = a
          /\ gets' = gets \o HttpGets(a, "stooq", STQ_SYMBOLS, tkr, "fetch_prices")
          /\ IF out.st = "raise"
               THEN pc' = "raised" /\ res' = res
               ELSE /\ pc' = AfterStooq(out)
                    /\ res' = IF NonEmpty(out) THEN SourceResult("stooq", out, days) ELSE res
  /\ UNCHANGED <<tkr, days, fredTry, sum, imgs>>
  /\ UNCHANGED flow

\* 2) FRED: reached only when the Stooq attempt returned nothing; then the final return
FetchPricesFred ==
  /\ pc = "fetch_fred"
  /\ \E a \in (IF tkr \in DOMAIN FRED_IDS THEN FredAttempts ELSE {NoSymbol}) :
       LET out == a.out
       IN /\ fredTry' = a
          /\ gets' = gets \o HttpGets(a, "fred", FRED_IDS, tkr, "fetch_prices")
          /\ IF out.st = "raise"
               THEN pc' = "raised" /\ res' = res
               ELSE /\ pc' = "summary"
                    /\ res' = IF NonEmpty(out) THEN SourceResult("fred", out, days) ELSE NoResult
  /\ UNCHANGED <<tkr, days, stqTry, sum, imgs>>
  /\ UNCHANGED flow

-----------------------------------------------------------------------------
(* Floating-point values: exact fractions n/d in lowest terms, nan, +inf and -inf *)

Abs(x) == IF x < 0 THEN -x ELSE x
RECURSIVE GCD(_, _)
GCD(a, b) == IF b = 0 THEN a ELSE GCD(b, a % b)

\* the float n/d, d > 0
Num(n, d) ==
  LET g == GCD(Abs(n), d)
  IN [k |-> "num", n |-> n \div g, d |-> d \div g]
NaNf == [k |-> "nan", n |-> 0, d |-> 1]
\* s = 1 for +inf, s = -1 for -inf
Inf(s) == [k |-> "inf", n |-> s, d |-> 1]
\* Python's None where a float is expected
PyNone == [k |-> "None", n |-> 0, d |-> 1]

Sign(x) == IF x.n > 0 THEN 1 ELSE IF x.n < 0 THEN -1 ELSE 0
IsNaN(x) == x.k = "nan"

\* a cell of a frame as a float
Float(c) == IF c = NaN THEN NaNf ELSE Num(c, 1)

FNeg(x) == IF x.k = "nan" THEN NaNf ELSE [x EXCEPT !.n = -x.n]
FAdd(x, y) ==
  IF x.k = "nan" \/ y.k = "nan" THEN NaNf
  ELSE IF x.k = "inf" /\ y.k = "inf" THEN (IF x.n = y.n THEN x ELSE NaNf)
  ELSE IF x.k = "inf" THEN x
  ELSE IF y.k = "inf" THEN y
  ELSE Num(x.n * y.d + y.n * x.d, x.d * y.d)
FSub(x, y) == FAdd(x, FNeg(y))
FMul(x, y) ==
  IF x.k = "nan" \/ y.k = "nan" THEN NaNf
  ELSE IF x.k = "inf" \/ y.k = "inf"
         THEN (IF Sign(x) * Sign(y) = 0 THEN NaNf ELSE Inf(Sign(x) * Sign(y)))
  ELSE Num(x.n * y.n, x.d * y.d)
\* IEEE division: x/0 is +-inf, 0/0 is nan, no exception
FDiv(x, y) ==
  IF x.k = "nan" \/ y.k = "nan" THEN NaNf
  ELSE IF y.k = "inf" THEN (IF x.k = "inf" THEN NaNf ELSE Num(0, 1))
  ELSE IF y.n = 0 THEN (IF Sign(x) = 0 THEN NaNf ELSE Inf(Sign(x)))
  ELSE IF x.k = "inf" THEN Inf(Sign(x) * Sign(y))
  ELSE Num(x.n * y.d * Sign(y), x.d * Abs(y.n))
\* x <= y for floats that are not nan
FLeq(x, y) ==
  IF x.k = "inf" THEN (x.n = -1 \/ (y.k = "inf" /\ y.n = 1))
  ELSE IF y.k = "inf" THEN y.n = 1
  ELSE x.n * y.d <= y.n * x.d

-----------------------------------------------------------------------------
(* Indicators: rsi_series, pct, the SMAs, and the formatting of the block's fields *)

\* "period: int = 14"
RSI_PERIOD == 14

\* a Close column as floats (concatenated to <<>> so that it is one sequence value)
Floats(cells) == <<>> \o [i \in 1..Len(cells) |-> Float(cells[i])]

RECURSIVE FSum(_, _, _)
FSum(x, lo, hi) ==
  IF lo > hi THEN Num(0, 1)
  ELSE IF lo = hi THEN x[lo]
  ELSE LET mid == (lo + hi) \div 2
       IN FAdd(FSum(x, lo, mid), FSum(x, mid + 1, hi))

\* Series.diff(): nan at the first position
Diff(x) == [i \in 1..Len(x) |-> IF i = 1 THEN NaNf ELSE FSub(x[i], x[i - 1])]
\* Series.clip(lower=0) and Series.clip(upper=0): nan stays nan
ClipLower0(x) == [i \in 1..Len(x) |-> IF IsNaN(x[i]) \/ FLeq(Num(0, 1), x[i]) THEN x[i] ELSE Num(0, 1)]
ClipUpper0(x) == [i \in 1..Len(x) |-> IF IsNaN(x[i]) \/ FLeq(x[i], Num(0, 1)) THEN x[i] ELSE Num(0, 1)]
Negated_keep(x) == x
Negated(x) == [i \in 1..Len(x) |-> FNeg(x[i])]

\* Series.rolling(window=w, min_periods=w).mean() at position i: nan until w values that
\* are not nan fill the window (exact arithmetic; the rounding of the running sum is not modelled)
RollingMeanAt_anyperiods(x, w, i) ==
  LET lo == Max(1, i - w + 1)
      have == {j \in lo..i : ~IsNaN(x[j])}
  IN IF have = {} THEN NaNf
     ELSE FDiv(FSum([j \in 1..Len(x) |-> IF IsNaN(x[j]) THEN Num(0, 1) ELSE x[j]], lo, i),
               Num(Cardinality(have), 1))
RollingMeanAt(x, w, i) ==
  IF i - w + 1 < 1 \/ (\E j \in (i - w + 1)..i : IsNaN(x[j]))
    THEN NaNf
    ELSE FDiv(FSum(x, i - w + 1, i), Num(w, 1))
RollingMean(x, w) == [i \in 1..Len(x) |-> RollingMeanAt(x, w, i)]

\* avg_loss.replace(0, np.nan)
ReplaceZero(v) == IF v = Num(0, 1) THEN NaNf ELSE v

\* rsi = 100.0 - (100.0 / (1.0 + rs)), rs = avg_gain / avg_loss.replace(0, np.nan)
RsiAt(avg_gain, avg_loss) ==
  LET rs == FDiv(avg_gain, ReplaceZero(avg_loss))
  IN FSub(Num(100, 1), FDiv(Num(100, 1), FAdd(Num(1, 1), rs)))

rsi_series(close, period) ==
  LET delta == Diff(close)
      gain == ClipLower0(delta)
      loss == Negated(ClipUpper0(delta))
  IN [i \in 1..Len(close) |->
        RsiAt(RollingMeanAt(gain, period, i), RollingMeanAt(loss, period, i))]

\* pct(n): "if len(close) > n: return float((close.iloc[-1] / close.iloc[-n-1] - 1.0) * 100.0)"
pct_inclusive(close, n) ==
  IF Len(close) >= n
    THEN FMul(FSub(FDiv(close[Len(close)], close[Max(1, Len(close) - n)]), Num(1, 1)), Num(100, 1))
    ELSE PyNone
pct(close, n) ==
  IF Len(close) > n
    THEN FMul(FSub(FDiv(close[Len(close)], close[Len(close) - n]), Num(1, 1)), Num(100, 1))
    ELSE PyNone

\* "close.rolling(w).mean().iloc[-1] if len(close) >= w else np.nan"
sma_short(close, w) ==
  IF Len(close) >= w THEN RollingMeanAt(close, w - 1, Len(close)) ELSE NaNf
sma(close, w) ==
  IF Len(close) >= w THEN RollingMeanAt(close, w, Len(close)) ELSE NaNf

\* "rsi_series(close, 14).iloc[-1] if len(close) >= 15 else np.nan"
rsi_last(close) ==
  IF Len(close) >= RSI_PERIOD + 1 THEN rsi_series(close, RSI_PERIOD)[Len(close)] ELSE NaNf

\* the value printed by a ".2f" format, in hundredths (ties to even)
Round2(x) ==
  LET q == (100 * x.n) \div x.d
      r == 100 * x.n - q * x.d
  IN IF 2 * r < x.d THEN q
     ELSE IF 2 * r > x.d THEN q + 1
     ELSE IF q % 2 = 0 THEN q ELSE q + 1

\* a formatted field: the marker "n/a", or a number with two decimals
NA == [txt |-> "n/a", cents |-> 0]
Number(x) == IF x.k = "inf" THEN [txt |-> "inf", cents |-> x.n] ELSE [txt |-> "number", cents |-> Round2(x)]

\* fmt_pct / fmt_price: "n/a" for None, nan and inf
fmt_nancheck(x) == IF x.k = "None" THEN NA ELSE IF x.k = "nan" THEN Number(Num(0, 1)) ELSE Number(x)
fmt(x) == IF x.k \in {"None", "nan", "inf"} THEN NA ELSE Number(x)
\* "('%.2f' % rsi_last) if not pd.isna(rsi_last) else 'n/a'"
fmt_rsi(x) == IF IsNaN(x) THEN NA ELSE Number(x)

\* the indicator part of build_summary_block, for a close series without missing values
Indicators(close) ==
  [price |-> close[Len(close)],
   d1 |-> pct(close, 1), d7 |-> pct(close, 7), d30 |-> pct(close, 30),
   sma20 |-> sma(close, 20), sma50 |-> sma(close, 50), sma200 |-> sma(close, 200),
   rsi |-> rsi_last(close)]

\* the fields of the html block
Html(ind) ==
  [price |-> fmt(ind.price),
   d1 |-> fmt(ind.d1), d7 |-> fmt(ind.d7), d30 |-> fmt(ind.d30),
   sma20 |-> fmt(ind.sma20), sma50 |-> fmt(ind.sma50), sma200 |-> fmt(ind.sma200),
   rsi |-> fmt_rsi(ind.rsi)]

-----------------------------------------------------------------------------
(* build_summary_block *)

\* "if df is None or len(df) == 0"
NoData_nonecheck(f) == f.st = "df" /\ Len(f.rows) = 0
NoData(f) == f.st = "none" \/ Len(f.rows) = 0

\* "if len(close) < 40"
NeedsReconcile(close) == Len(close) < RECONCILE_MIN_LEN

\* df.merge(extra, on="Date", how="outer"): every pair of rows of equal Date, the left
\* rows without a partner (Close_fred missing) and the right rows without a partner
\* (every left column missing).  The order is settled by the sort_values that follows.
JoinRow(l, cf) ==
  [Date |-> l.Date, Open |-> l.Open, High |-> l.High, Low |-> l.Low, Close |-> l.Close,
   Close_fred |-> cf]
RightOnlyRow_ohlc(r) ==
  [Date |-> r.Date, Open |-> r.Open, High |-> r.High, Low |-> r.Low, Close |-> NaN,
   Close_fred |-> r.Close]
RightOnlyRow(r) ==
  [Date |-> r.Date, Open |-> NaN, High |-> NaN, Low |-> NaN, Close |-> NaN,
   Close_fred |-> r.Close]

MergeOuter_left(left, extra) ==
  LET partners(l) == SelectSeq(extra, LAMBDA r : r.Date = l.Date)
  IN Flatten([i \in 1..Len(left) |->
       LET ps == partners(left[i])
       IN IF ps = <<>>
            THEN <<JoinRow(left[i], NaN)>>
            ELSE [j \in 1..Len(ps) |-> JoinRow(left[i], ps[j].Close)]])
MergeOuter(left, extra) ==
  LET partners(l) == SelectSeq(extra, LAMBDA r : r.Date = l.Date)
      leftPart == Flatten([i \in 1..Len(left) |->
                    LET ps == partners(left[i])
                    IN IF ps = <<>>
                         THEN <<JoinRow(left[i], NaN)>>
                         ELSE [j \in 1..Len(ps) |-> JoinRow(left[i], ps[j].Close)]])
      alone == SelectSeq(extra, LAMBDA r : \A i \in 1..Len(left) : left[i].Date # r.Date)
  IN leftPart \o [j \in 1..Len(alone) |-> RightOnlyRow(alone[j])]

\* df["Close"] = df["Close"].fillna(df["Close_fred"]); df.drop(columns=["Close_fred"])
FillClose_fredfirst(rows) ==
  [i \in 1..Len(rows) |->
     [Date |-> rows[i].Date, Open |-> rows[i].Open, High |-> rows[i].High, Low |-> rows[i].Low,
      Close |-> IF rows[i].Close_fred = NaN THEN rows[i].Close ELSE rows[i].Close_fred]]
FillClose(rows) ==
  [i \in 1..Len(rows) |->
     [Date |-> rows[i].Date, Open |-> rows[i].Open, High |-> rows[i].High, Low |-> rows[i].Low,
      Close |-> IF rows[i].Close = NaN THEN rows[i].Close_fred ELSE rows[i].Close]]

\* the frames the reconciliation can give: merge, sort, fill, drop
Reconciled(df0, fred) == {FillClose(m) : m \in sort_values(MergeOuter(df0, fred.rows))}

BuildSummaryBlock ==
  /\ pc = "summary"
  /\ IF NoData(res.df)
       THEN \* "Dati non disponibili."
            /\ sum' = [NoSummary EXCEPT !.kind = "unavailable"]
            /\ pc' = "done"
            /\ gets' = gets
            /\ res' = res
       ELSE IF res.df.st # "df"
       THEN \* df.copy() on None raises AttributeError
            /\ sum' = sum
            /\ pc' = "raised"
            /\ gets' = gets
            /\ res' = res
       ELSE \E df0 \in sort_values(res.df.rows) :
              IF ~NeedsReconcile(Closes(df0))
                THEN /\ sum' = [kind |-> "block", df0 |-> df0, fredTry |-> NoTry,
                                df |-> df0, close |-> Closes(df0),
                                html |-> Html(Indicators(Floats(Closes(df0))))]
                     /\ pc' = "done"
                     /\ gets' = gets
                     /\ res' = [res EXCEPT !.df = CallerFrame(res.df, df0)]
                ELSE \E a \in (IF tkr \in DOMAIN FRED_IDS THEN FredAttempts ELSE {NoSymbol}) :
                     \E df \in (IF NonEmpty(a.out) THEN Reconciled(df0, a.out) ELSE {df0}) :
                        /\ gets' = gets \o HttpGets(a, "fred", FRED_IDS, tkr,
                                                      "build_summary_block")
                        /\ res' = [res EXCEPT !.df = CallerFrame(res.df, df)]
                        /\ IF a.out.st = "raise"
                             THEN pc' = "raised" /\ sum' = sum
                             ELSE /\ sum' = [kind |-> "block", df0 |-> df0,
                                             fredTry |-> a,
                                             df |-> df, close |-> Closes(df),
                                             html |-> Html(Indicators(Floats(Closes(df))))]
                                  /\ pc' = "done"
  /\ UNCHANGED <<tkr, days, stqTry, fredTry, imgs>>
  /\ UNCHANGED flow

-----------------------------------------------------------------------------
(* The handlers wti_cmd / brent_cmd: fetch_prices(ticker, days), then build_summary_block *)

Init ==
  /\ pc = "fetch_stooq"
  /\ \E c \in Calls : tkr = c[1] /\ days = c[2]
  /\ gets = <<>>
  /\ stqTry = NoTry
  /\ fredTry = NoTry
  /\ res = NoResult
  /\ sum = NoSummary
  /\ imgs = <<>>
  /\ NoFlow

Next == FetchPricesStooq \/ FetchPricesFred \/ BuildSummaryBlock

Spec == Init /\ [][Next]_vars

-----------------------------------------------------------------------------
(* The indicator part of build_summary_block, and rsi_series, on close series of every
   length around the indicators' thresholds *)

IndicatorThresholds == {1, 7, 30, 20, 50, 200, RSI_PERIOD, RSI_PERIOD + 1}
IndLens == {n \in UNION {{t - 1, t, t + 1} : t \in IndicatorThresholds} : n >= 1}
Shapes == {"flat", "up", "down", "zigzag", "saw", "zeros", "upflat", "vee"}

\* the i-th close of the series of n closes of a shape, v in 1..MaxClose
ShapeClose(shape, n, v, i) ==
  CASE shape = "flat" -> v
    [] shape = "up" -> v * i
    [] shape = "down" -> v * (n - i + 1)
    [] shape = "zigzag" -> 1 + v * (i % 2)
    [] shape = "saw" -> 1 + ((i * i) % (v + 4))
    [] shape = "zeros" -> (i + v) % 3
    [] shape = "upflat" -> v * Min(i, Max(1, n - RSI_PERIOD))
    [] shape = "vee" -> v * (1 + Abs(2 * i - n))

CloseInputs ==
  {[i \in 1..n |-> ShapeClose(sh, n, v, i)] : sh \in Shapes, n \in IndLens, v \in 1..MaxClose}
    \cup UNION {[1..n -> 0..MaxClose] : n \in 1..MaxLen}

IndInit ==
  /\ pc = "indicators"
  /\ tkr = "WTI"
  /\ days = CallerDays
  /\ gets = <<>>
  /\ stqTry = NoTry
  /\ fredTry = NoTry
  /\ res = NoResult
  /\ \E c \in CloseInputs : sum = [NoSummary EXCEPT !.close = c]
  /\ imgs = <<>>
  /\ NoFlow

\* lines 465-489 of build_summary_block on the close series; rsi is the whole rsi_series
ComputeIndicators ==
  /\ pc = "indicators"
  /\ LET close == Floats(sum.close)
     IN sum' = [kind |-> "block", df0 |-> <<>>, fredTry |-> NoTry, df |-> <<>>,
                close |-> sum.close,
                ind |-> Indicators(close),
                html |-> Html(Indicators(close)),
                rsi |-> rsi_series(close, RSI_PERIOD)]
  /\ pc' = "done"
  /\ UNCHANGED <<tkr, days, gets, stqTry, fredTry, res, imgs>>
  /\ UNCHANGED flow

IndNext == ComputeIndicators

IndSpec == IndInit /\ [][IndNext]_vars

-----------------------------------------------------------------------------
(* make_chart_png, make_daily_line_chart_png, make_daily_table_png *)

\* "make_daily_line_chart_png(..., days=60)" and "make_daily_table_png(..., rows=14)"
DAILY_DAYS == 60
TABLE_ROWS == 14

\* dropna(subset=["Open", "High", "Low", "Close"]) keeps the rows that have all four
HasOHLC(r) == r.Open # NaN /\ r.High # NaN /\ r.Low # NaN /\ r.Close # NaN

\* the chart drawn from the sorted copy o of the window
ChartOf(o) ==
  LET d_show == SelectSeq(DfTail(o, CHART_WINDOW_DAYS), HasOHLC)
      d_buf == SelectSeq(DfTail(o, CHART_WINDOW_DAYS + RSI_PERIOD), HasClose)
      rsi_full == <<>> \o rsi_series(Floats(Closes(d_buf)), RSI_PERIOD)
      rsi_to_plot == DfTail(rsi_full, Len(d_show))
  IN IF d_show = <<>>
       THEN [fn |-> "make_chart_png", kind |-> "empty", o |-> o, worked |-> d_show]
       ELSE [fn |-> "make_chart_png", kind |-> "chart", o |-> o, worked |-> d_show,
             dates |-> Dates(d_show), candles |-> d_show, buf |-> Dates(d_buf),
             rsi |-> rsi_to_plot,
             rsi_plotted |-> \E i \in 1..Len(rsi_to_plot) : ~IsNaN(rsi_to_plot[i])]

make_chart_png(ohlc) == {ChartOf(o) : o \in sort_values(ohlc.rows)}

\* d = df.copy().sort_values("Date").dropna(subset=["Close"]).tail(days)
DailyLineOf(o, n) ==
  LET d == DfTail(SelectSeq(o, HasClose), n)
      close == Floats(Closes(d))
  IN IF d = <<>>
       THEN [fn |-> "make_daily_line_chart_png", kind |-> "empty", o |-> o, worked |-> d]
       ELSE [fn |-> "make_daily_line_chart_png", kind |-> "chart", o |-> o, worked |-> d,
             dates |-> Dates(d), close |-> close,
             sma20 |-> RollingMean(close, 20), sma50 |-> RollingMean(close, 50)]

make_daily_line_chart_png(df, n) == {DailyLineOf(o, n) : o \in sort_values(df.rows)}

\* d = df.copy().sort_values("Date").dropna(subset=["Open","High","Low","Close"]).tail(rows)
DailyTableOf(o, n) ==
  LET d == DfTail(SelectSeq(o, HasOHLC), n)
  IN IF d = <<>>
       THEN [fn |-> "make_daily_table_png", kind |-> "empty", o |-> o, worked |-> d]
       ELSE [fn |-> "make_daily_table_png", kind |-> "table", o |-> o, worked |-> d,
             tab |-> [i \in 1..Len(d) |->
                        [Date |-> d[i].Date,
                         Open |-> Round2(Float(d[i].Open)), High |-> Round2(Float(d[i].High)),
                         Low |-> Round2(Float(d[i].Low)), Close |-> Round2(Float(d[i].Close))]]]

make_daily_table_png(df, n) == {DailyTableOf(o, n) : o \in sort_values(df.rows)}

\* "if res["ohlc"] is not None and len(res["ohlc"]) >= 2 and res["df"] is not None"
HasCharts(r) == r.ohlc.st = "df" /\ Len(r.ohlc.rows) >= 2 /\ r.df.st = "df"

MakeChartPng ==
  /\ pc = "done"
  /\ HasCharts(res)
  /\ \E img \in make_chart_png(res.ohlc) :
       /\ imgs' = Append(imgs, img)
       /\ res' = [res EXCEPT !.ohlc = CallerFrame(res.ohlc, img.worked)]
  /\ pc' = "daily"
  /\ UNCHANGED <<tkr, days, gets, stqTry, fredTry, sum>>
  /\ UNCHANGED flow

MakeDailyLineChartPng ==
  /\ pc = "daily"
  /\ \E img \in make_daily_line_chart_png(res.df, DAILY_DAYS) :
       /\ imgs' = Append(imgs, img)
       /\ res' = [res EXCEPT !.df = CallerFrame(res.df, img.worked)]
  /\ pc' = "table"
  /\ UNCHANGED <<tkr, days, gets, stqTry, fredTry, sum>>
  /\ UNCHANGED flow

MakeDailyTablePng ==
  /\ pc = "table"
  /\ \E img \in make_daily_table_png(res.df, TABLE_ROWS) :
       /\ imgs' = Append(imgs, img)
       /\ res' = [res EXCEPT !.df = CallerFrame(res.df, img.worked)]
  /\ pc' = "images"
  /\ UNCHANGED <<tkr, days, gets, stqTry, fredTry, sum>>
  /\ UNCHANGED flow

-----------------------------------------------------------------------------
(* The report of one ticker: summary block, candlestick chart, daily line
   chart, daily table, drawn from one fetch_prices result. *)

\* window lengths around the chart window and the chart window plus the RSI warm-up
ChartLens ==
  {2} \cup {CHART_WINDOW_DAYS + k : k \in -1..2}
      \cup {CHART_WINDOW_DAYS + RSI_PERIOD + k : k \in -1..2}

\* where a row with a valid Close has no Open: nowhere, in the last row, in
\* the first row of the displayed window, in the middle of it
Gaps == {"none", "last", "first", "mid"}

GapAt(gap, n) ==
  CASE gap = "none" -> 0
    [] gap = "last" -> n
    [] gap = "first" -> Max(1, n - CHART_WINDOW_DAYS + 1)
    [] gap = "mid" -> Max(1, n - (CHART_WINDOW_DAYS \div 2))

\* closes that rise and fall with period six, so that neighbouring RSI values differ
ChartClose(n, i) == ShapeClose("saw", n, 2, i)

ChartRows(n, gap) ==
  [i \in 1..n |-> StooqRow(i, IF i = GapAt(gap, n) THEN NaN ELSE ChartClose(n, i),
                           ChartClose(n, i))]

ChartInputs == {ChartRows(n, gap) : n \in ChartLens, gap \in Gaps}

ReportInit ==
  /\ pc = "summary"
  /\ tkr = "WTI"
  /\ days = CallerDays
  /\ gets = <<>>
  /\ stqTry = NoTry
  /\ fredTry = NoTry
  /\ res \in {SourceResult("stooq", Frame(rows), CallerDays) : rows \in ChartInputs}
  /\ sum = NoSummary
  /\ imgs = <<>>
  /\ NoFlow

ReportNext ==
  \/ BuildSummaryBlock
  \/ MakeChartPng
  \/ MakeDailyLineChartPng
  \/ MakeDailyTablePng

ReportSpec == ReportInit /\ [][ReportNext]_vars

-----------------------------------------------------------------------------
(* tg_call: up to retries POSTs to the Telegram API *)

\* the retries argument ranges over 0..MaxRetries; the callers leave it at its default, 3
MaxRetries == 3

\* what one requests.post can give: an exception (no connection, timeout), or a
\* response with r.ok and a body that is JSON with "ok" true, JSON with "ok" false,
\* or not JSON at all
PostRaised == [raised |-> TRUE, http_ok |-> FALSE, json |-> "none"]
PostAnswer(http_ok, json) == [raised |-> FALSE, http_ok |-> http_ok, json |-> json]
TgResponses ==
  {PostRaised} \cup {PostAnswer(h, j) : h \in BOOLEAN, j \in {"true", "false", "invalid"}}

\* "for i in range(retries)"
InRange_inclusive(i, retries) == i <= retries
InRange(i, retries) == i < retries

\* one pass through the try block: "return" when "r.ok and r.json().get("ok")", "except"
\* when post or r.json() raised, "failed" otherwise
TryPost(r) ==
  IF r.raised THEN "except"
  ELSE IF ~r.http_ok THEN "failed"
  ELSE IF r.json = "invalid" THEN "except"
  ELSE IF r.json = "true" THEN "return"
  ELSE "failed"

\* last_err after a pass that did not return: str(e) or r.text
LastErr(r) == IF TryPost(r) = "except" THEN "str(e)" ELSE "r.text"

\* one iteration of the loop: the POST, then the return or last_err, the sleep and i + 1
TgPost ==
  /\ pc = "tg_loop"
  /\ InRange(tg.i, tg.retries)
  /\ \E r \in TgResponses :
       IF TryPost(r) = "return"
         THEN /\ tg' = [tg EXCEPT !.posts = Append(@, r)]
              /\ pc' = "tg_returned"
         ELSE /\ tg' = [tg EXCEPT !.posts = Append(@, r), !.last_err = LastErr(r), !.i = @ + 1]
              /\ pc' = "tg_loop"
  /\ UNCHANGED <<tkr, days, gets, stqTry, fredTry, res, sum, imgs>>
  /\ UNCHANGED <<results, log, tmpfiles, disk>>

\* the loop is exhausted: raise RuntimeError(f"Telegram {method} failed: {last_err}")
TgRaise ==
  /\ pc = "tg_loop"
  /\ ~InRange(tg.i, tg.retries)
  /\ pc' = "tg_raised"
  /\ UNCHANGED <<tkr, days, gets, stqTry, fredTry, res, sum, imgs>>
  /\ UNCHANGED flow

TgInit ==
  /\ pc = "tg_loop"
  /\ tkr = "WTI"
  /\ days = CallerDays
  /\ gets = <<>>
  /\ stqTry = NoTry
  /\ fredTry = NoTry
  /\ res = NoResult
  /\ sum = NoSummary
  /\ imgs = <<>>
  /\ \E n \in 0..MaxRetries : tg = [NoCall EXCEPT !.retries = n]
  /\ results = <<>> /\ log = <<>> /\ tmpfiles = <<>> /\ disk = {}

TgNext == TgPost \/ TgRaise

TgSpec == TgInit /\ [][TgNext]_vars

-----------------------------------------------------------------------------
(* main of oil_report_telegram.py, report_cmd of App.py and bot_service.py: the report
   over both tickers.  pc is the statement the report is at; "finally_exc" is the
   finally block entered with an exception in flight. *)

Event(op, of, ok) == [op |-> op, of |-> of, ok |-> ok]

\* what fetch_prices may have returned for a ticker: nothing, a series of one row, a
\* short series, a series of RECONCILE_MIN_LEN rows
FlowLens == {1, 2, RECONCILE_MIN_LEN}
FlowResults ==
  {NoResult} \cup
    {SourceResult("stooq", Frame(ChartRows(n, "none")), CallerDays) : n \in FlowLens}

\* the three images of a ticker, in the order they are made; a path is the ticker's
\* prefix and the image's name (the seconds of the clock in the name are left out)
Images == <<"candle", "daily", "table">>
Path(t, k) == <<t, Images[k]>>

\* the statement that follows the work on ticker t
AfterFetch(t) == IF t = "WTI" THEN "fetch BRENT" ELSE "block WTI"
AfterBlock(t) == IF t = "WTI" THEN "block BRENT" ELSE "send_text"
AfterCharts(t) == IF t = "WTI" THEN "charts BRENT" ELSE "send_images"

\* res_wti = fetch_prices("WTI", ...), res_brnt = fetch_prices("BRENT", ...)
MainFetchPrices ==
  \E t \in {"WTI", "BRENT"} :
    /\ pc = "fetch " \o t
    /\ \E r \in FlowResults : results' = results @@ (t :> r)
    /\ log' = Append(log, Event("fetch_prices", t, TRUE))
    /\ pc' = AfterFetch(t)
    /\ UNCHANGED <<tkr, days, gets, stqTry, fredTry, res, sum, imgs, tg, tmpfiles, disk>>

\* the work build_summary_block does for a ticker: nothing without data; else the FRED
\* fetch of the reconciliation when the history is short, then the indicators
BlockWork(t, r) ==
  IF NoData(r.df) THEN <<>>
  ELSE (IF NeedsReconcile(Closes(r.df.rows)) /\ t \in DOMAIN FRED_IDS
          THEN <<Event("reconcile", t, TRUE)>> ELSE <<>>)
       \o <<Event("indicators", t, TRUE)>>

\* wti_block, _ = build_summary_block("WTI", res_wti), then the same for BRENT
MainSummaryBlock ==
  \E t \in {"WTI", "BRENT"} :
    /\ pc = "block " \o t
    /\ log' = log \o BlockWork(t, results[t])
    /\ pc' = AfterBlock(t)
    /\ UNCHANGED <<tkr, days, gets, stqTry, fredTry, res, sum, imgs, tg, results,
                   tmpfiles, disk>>

\* send_telegram_html(body) / reply_html(body): it returns, or its exception ends the
\* report before the try block
MainSendText ==
  /\ pc = "send_text"
  /\ \E ok \in BOOLEAN :
       /\ log' = Append(log, Event("send_text", "", ok))
       /\ pc' = IF ok THEN "charts WTI" ELSE "raised"
  /\ UNCHANGED <<tkr, days, gets, stqTry, fredTry, res, sum, imgs, tg, results,
                 tmpfiles, disk>>

\* the images of one ticker: skipped without a window of two rows; else the first n are
\* made and recorded, and when n < 3 the next function raised, having written its file
\* or not, and the finally block is entered with that exception
MainCharts ==
  \E t \in {"WTI", "BRENT"} :
    /\ pc = "charts " \o t
    /\ IF ~HasCharts(results[t])
         THEN /\ pc' = AfterCharts(t)
              /\ UNCHANGED <<log, tmpfiles, disk>>
         ELSE \E n \in 0..Len(Images), left \in BOOLEAN :
                /\ (n = Len(Images)) => ~left
                /\ tmpfiles' = tmpfiles \o [k \in 1..n |-> Path(t, k)]
                /\ disk' = disk \cup {Path(t, k) : k \in 1..n}
                                \cup (IF left THEN {Path(t, n + 1)} ELSE {})
                /\ log' = log \o [k \in 1..n |-> Event("make", Path(t, k), TRUE)]
                             \o (IF n < Len(Images)
                                   THEN <<Event("make", Path(t, n + 1), FALSE)>> ELSE <<>>)
                /\ pc' = IF n = Len(Images) THEN AfterCharts(t) ELSE "finally_exc"
    /\ UNCHANGED <<tkr, days, gets, stqTry, fredTry, res, sum, imgs, tg, results>>

\* the album when more than one image is recorded, the single photo when one is,
\* nothing otherwise; the send returns or raises
MainSendImages ==
  /\ pc = "send_images"
  /\ IF tmpfiles = <<>>
       THEN pc' = "finally" /\ log' = log
       ELSE \E ok \in BOOLEAN :
              /\ log' = Append(log, Event(IF Len(tmpfiles) > 1 THEN "send_album"
                                                              ELSE "send_photo", "", ok))
              /\ pc' = IF ok THEN "finally" ELSE "finally_exc"
  /\ UNCHANGED <<tkr, days, gets, stqTry, fredTry, res, sum, imgs, tg, results,
                 tmpfiles, disk>>

\* "for _, path in tmpfiles: try: os.remove(path) except Exception: pass": os.remove
\* is called for every recorded path, fails being the places where it raises
Removals_stop(paths, fails) ==
  LET stop == IF fails = {} THEN Len(paths) ELSE CHOOSE i \in fails : \A j \in fails : i <= j
  IN [i \in 1..stop |-> Event("os.remove", paths[i], i \notin fails)]
Removals(paths, fails) ==
  [i \in 1..Len(paths) |-> Event("os.remove", paths[i], i \notin fails)]

\* the finally block; after it the exception in flight, if any, leaves the report
MainFinally ==
  /\ pc \in {"finally", "finally_exc"}
  /\ \E fails \in SUBSET (1..Len(tmpfiles)) :
       LET rm == Removals(tmpfiles, fails)
       IN /\ log' = log \o rm
          /\ disk' = disk \ {rm[i].of : i \in {j \in 1..Len(rm) : rm[j].ok}}
  /\ pc' = IF pc = "finally" THEN "end" ELSE "raised"
  /\ UNCHANGED <<tkr, days, gets, stqTry, fredTry, res, sum, imgs, tg, results, tmpfiles>>

MainInit ==
  /\ pc = "fetch WTI"
  /\ tkr = "WTI"
  /\ days = CallerDays
  /\ gets = <<>>
  /\ stqTry = NoTry
  /\ fredTry = NoTry
  /\ res = NoResult
  /\ sum = NoSummary
  /\ imgs = <<>>
  /\ NoFlow

MainNext ==
  \/ MainFetchPrices
  \/ MainSummaryBlock
  \/ MainSendText
  \/ MainCharts
  \/ MainSendImages
  \/ MainFinally

MainSpec == MainInit /\ [][MainNext]_vars

-----------------------------------------------------------------------------
(* Properties *)

\* the frame is a DataFrame with at least one row
HasRows(f) == f.st = "df" /\ Len(f.rows) >= 1
\* fetch_prices has returned
Returned == pc \in {"summary", "done"}
\* the GETs of the log issued by one function
GetsBy(by) == SelectSeq(gets, LAMBDA g : g.by = by)
AscendingDates(rows) == \A i \in 1..(Len(rows) - 1) : rows[i].Date <= rows[i + 1].Date
StrictlyAscendingDates(rows) == \A i \in 1..(Len(rows) - 1) : rows[i].Date < rows[i + 1].Date
ClosesAt(rows, d) == {rows[i].Close : i \in {j \in 1..Len(rows) : rows[j].Date = d}}
\* the attempts made so far, and the frames they returned
Attempts == {stqTry, fredTry, sum.fredTry}

\* C1: whenever the Stooq fetch yields a non-empty series, fetch_prices returns source
\* "stooq" with exactly that series as the full series, and fetch_prices asks FRED nothing,
\* whatever FRED would answer (build_summary_block may later see FRED's longer history;
\* the result stays Stooq's).
C1_StooqWins ==
  (pc # "fetch_stooq" /\ HasRows(stqTry.out)) =>
     /\ pc # "fetch_fred"
     /\ ~fredTry.made
     /\ \A i \in 1..Len(gets) : gets[i].by = "fetch_prices" => gets[i].src = "stooq"
     /\ Returned => (res.source = "stooq" /\ res.df = stqTry.out)

\* the summary's own FRED fetch returned more history than the Stooq series that won
C1_Witness ==
  /\ pc = "done"
  /\ res.source = "stooq"
  /\ HasRows(sum.fredTry.out)
  /\ Len(sum.fredTry.out.rows) > Len(res.df.rows)

\* C2: fetch_prices tries Stooq, then FRED, and stops at the first non-empty series: its
\* GETs are a prefix of <<stooq, fred>>, the FRED attempt is made only after the Stooq
\* attempt ended absent or empty, and then a non-empty FRED series is returned as source
\* "fred" with the FRED series alone as the full series.
C2_OrderedFallback ==
  LET g == GetsBy("fetch_prices")
  IN /\ Len(g) <= 2
     /\ Len(g) >= 1 => g[1].src = "stooq"
     /\ Len(g) = 2 => g[2].src = "fred"
     /\ (fredTry.made \/ pc = "fetch_fred") =>
           (stqTry.kind # "none" /\ ~HasRows(stqTry.out) /\ res.source # "stooq")
     /\ (Returned /\ HasRows(fredTry.out)) =>
           (res.source = "fred" /\ res.df = fredTry.out)

\* Stooq was asked and failed, FRED answered with a long history
C2_Witness ==
  /\ Returned
  /\ stqTry.made /\ stqTry.kind \in FailKinds
  /\ res.source = "fred"
  /\ Len(res.df.rows) > RECONCILE_MIN_LEN
  /\ Len(GetsBy("fetch_prices")) = 2

\* C3: when both attempts fail or are empty, fetch_prices raises nothing and returns
\* {source: None, df: None, ohlc: None}; build_summary_block on it raises nothing and
\* returns the "data unavailable" block, with no frame sorted and no close series taken.
C3_AllSourcesFail ==
  (stqTry.kind # "none" /\ ~HasRows(stqTry.out) /\ fredTry.kind # "none" /\ ~HasRows(fredTry.out)) =>
     /\ pc \in {"summary", "done"}
     /\ res = [source |-> "none", df |-> [st |-> "none", rows |-> <<>>],
               ohlc |-> [st |-> "none", rows |-> <<>>]]
     /\ pc = "done" =>
          (sum.kind = "unavailable" /\ sum.close = <<>> /\ sum.df = <<>> /\ ~sum.fredTry.made)

\* Stooq failed in transport, FRED answered a CSV without one valid row, the block is "unavailable"
C3_Witness ==
  /\ pc = "done"
  /\ stqTry.made /\ stqTry.kind \in FailKinds
  /\ fredTry.made /\ fredTry.kind = "ok" /\ fredTry.out.st = "df" /\ fredTry.out.rows = <<>>
  /\ sum.kind = "unavailable"

\* C4: in every non-empty result the window is the last `days` rows of the full series
\* in the same order, and the whole full series when it has fewer than `days` rows.
C4_WindowIsTail ==
  (Returned /\ res.source # "none") =>
     LET full == res.df.rows
         w == res.ohlc.rows
         n == Len(full)
     IN /\ res.ohlc.st = "df"
        /\ Len(w) = (IF n < days THEN n ELSE days)
        /\ \A i \in 1..Len(w) : w[i] = full[n - Len(w) + i]

\* a full series longer than the window, whose first row differs from the window's
C4_Witness ==
  /\ Returned
  /\ res.source # "none"
  /\ Len(res.df.rows) > days
  /\ Len(res.ohlc.rows) = days
  /\ res.ohlc.rows[1] # res.df.rows[1]

\* every row has a parsed date and a parsed close, and the dates ascend
Normalized(rows) ==
  /\ \A i \in 1..Len(rows) : rows[i].Date >= 1 /\ rows[i].Close >= 0
  /\ AscendingDates(rows)

\* C5: fetch_stooq and fetch_fred_close_series let no exception out: a transport failure,
\* an HTTP error, an unparseable body or a missing column makes them return None, and a
\* frame they return is fully normalized (every date and close parsed, dates ascending,
\* and for FRED the pseudo-OHLC columns filled).
C5_FetchersAbsorb ==
  /\ pc # "raised"
  /\ \A a \in Attempts :
       /\ a.out.st \in {"none", "df"}
       /\ a.kind \in (FailKinds \cup {"nocols", "nosym"}) => a.out.st = "none"
       /\ a.out.st = "df" => (a.kind = "ok" /\ Normalized(a.out.rows))
  /\ \A a \in {fredTry, sum.fredTry} :
       \A i \in 1..Len(a.out.rows) :
          LET r == a.out.rows[i]
          IN r.Open >= 0 /\ r.Low <= r.Close /\ r.Close <= r.High /\ r.Low <= r.Open /\ r.Open <= r.High

\* Stooq failed in transport, FRED answered rows of which some did not parse and were
\* dropped, and the later FRED answer had no usable header
C5_Witness ==
  /\ pc = "done"
  /\ stqTry.made /\ stqTry.kind \in FailKinds
  /\ fredTry.kind = "ok" /\ HasRows(fredTry.out) /\ Len(fredTry.out.rows) < fredTry.nraw
  /\ sum.fredTry.made /\ sum.fredTry.kind = "nocols"

\* C6: every series returned by fetch_stooq or fetch_fred_close_series has strictly
\* increasing dates, also when the raw response repeats a date.
C6_StrictlyIncreasingDates ==
  \A a \in Attempts : a.out.st = "df" => StrictlyAscendingDates(a.out.rows)

\* C7: when the series given to build_summary_block has at least 40 closes, no FRED fetch
\* is issued and the close series used for the indicators is identical to the input's.
C7_SufficientIsNoOp ==
  (pc = "done" /\ sum.kind = "block" /\ Len(res.df.rows) >= RECONCILE_MIN_LEN) =>
     /\ ~sum.fredTry.made
     /\ GetsBy("build_summary_block") = <<>>
     /\ sum.close = Closes(res.df.rows)

\* C8: after a reconciliation every date of the primary series carries in the merged
\* series exactly the closes it had in the primary series, and every merged row of such a
\* date is a primary row in all its columns, whatever FRED has for that date.
C8_PrimaryClosesKept ==
  (pc = "done" /\ sum.kind = "block" /\ HasRows(sum.fredTry.out)) =>
     /\ \A d \in DateSet(sum.df0) : ClosesAt(sum.df, d) = ClosesAt(sum.df0, d)
     /\ \A i \in 1..Len(sum.df) :
          sum.df[i].Date \in DateSet(sum.df0) => \E j \in 1..Len(sum.df0) : sum.df[i] = sum.df0[j]

\* FRED has another close than the primary series for a date they share
C8_Witness ==
  /\ pc = "done"
  /\ sum.kind = "block"
  /\ HasRows(sum.fredTry.out)
  /\ \E d \in DateSet(sum.df0) \cap DateSet(sum.fredTry.out.rows) :
        ClosesAt(sum.fredTry.out.rows, d) \cap ClosesAt(sum.df0, d) = {}

\* C9: a series of fewer than 40 closes triggers the FRED fetch; when it is non-empty the
\* merged series has exactly the dates of the primary and of the FRED series, in ascending
\* order (one row per date, strictly ascending, when neither input repeats a date), a date
\* absent from the primary carries the FRED close(s) of that date, the merged series is
\* not shorter than the primary, and the indicators' close series is the merged one's.
C9_MergedIsUnion ==
  (pc = "done" /\ sum.kind = "block" /\ Len(res.df.rows) < RECONCILE_MIN_LEN) =>
     /\ tkr \in DOMAIN FRED_IDS => sum.fredTry.made
     /\ HasRows(sum.fredTry.out) =>
          LET fr == sum.fredTry.out.rows
              p == sum.df0
              m == sum.df
          IN /\ DateSet(m) = DateSet(p) \cup DateSet(fr)
             /\ AscendingDates(m)
             /\ \A d \in DateSet(fr) \ DateSet(p) : ClosesAt(m, d) = ClosesAt(fr, d)
             /\ Len(m) >= Len(p)
             /\ sum.close = Closes(m)
             /\ (StrictlyAscendingDates(p) /\ StrictlyAscendingDates(fr)) =>
                   (StrictlyAscendingDates(m) /\ Len(m) = Cardinality(DateSet(p) \cup DateSet(fr)))

\* the primary and FRED each have a date the other lacks, and the merged series is longer
C9_Witness ==
  /\ pc = "done"
  /\ sum.kind = "block"
  /\ HasRows(sum.fredTry.out)
  /\ DateSet(sum.fredTry.out.rows) \ DateSet(sum.df0) # {}
  /\ DateSet(sum.df0) \ DateSet(sum.fredTry.out.rows) # {}
  /\ Len(sum.df) > Len(sum.df0)

\* C10: when a short series triggers the FRED fetch and it fails or is empty,
\* build_summary_block raises nothing and computes the indicators from the original
\* series unchanged.
C10_FailedReconcileKeepsOriginal ==
  /\ (pc = "raised") => GetsBy("build_summary_block") = <<>>
  /\ (pc = "done" /\ sum.kind = "block" /\ Len(res.df.rows) < RECONCILE_MIN_LEN
        /\ ~HasRows(sum.fredTry.out)) =>
       (sum.df = res.df.rows /\ sum.close = Closes(res.df.rows))

\* the last element of a non-empty sequence
Last(x) == x[Len(x)]

\* C11: when a short primary series is merged with FRED history, the price the block
\* reports is the primary series' last close.
C11_PriceStaysPrimary ==
  (pc = "done" /\ sum.kind = "block" /\ HasRows(sum.fredTry.out)) =>
     sum.html.price = [txt |-> "number", cents |-> 100 * Last(sum.df0).Close]

\* the indicators have been computed from the close series sum.close
Computed == pc = "done" /\ sum.kind = "block" /\ "ind" \in DOMAIN sum

RECURSIVE SumCells(_, _, _)
SumCells(c, lo, hi) ==
  IF lo > hi THEN 0
  ELSE IF lo = hi THEN c[lo]
  ELSE SumCells(c, lo, (lo + hi) \div 2) + SumCells(c, ((lo + hi) \div 2) + 1, hi)

\* v is the float (last / base - 1) * 100 for integers last and base
IsPctOf(v, last, base) ==
  IF base = 0
    THEN (IF last = 0 THEN v.k = "nan" ELSE v.k = "inf" /\ v.n = 1)
    ELSE v.k = "num" /\ v.n * base = 100 * (last - base) * v.d

PctOf(ind, N) == IF N = 1 THEN ind.d1 ELSE IF N = 7 THEN ind.d7 ELSE ind.d30
SmaOf(ind, W) == IF W = 20 THEN ind.sma20 ELSE IF W = 50 THEN ind.sma50 ELSE ind.sma200

\* C12: for N in {1, 7, 30} the percent change over N is undefined (None) when the close
\* series has N or fewer closes, and otherwise is (close[-1] / close[-1-N] - 1) * 100.
C12_PercentChange ==
  Computed =>
    \A N \in {1, 7, 30} :
       LET c == sum.close
           n == Len(c)
       IN IF n <= N
            THEN PctOf(sum.ind, N).k = "None"
            ELSE IsPctOf(PctOf(sum.ind, N), c[n], c[n - N])

\* a series of exactly 31 closes, whose 30-day change is a number other than 0
C12_Witness ==
  /\ Computed
  /\ Len(sum.close) = 31
  /\ sum.ind.d30.k = "num" /\ sum.ind.d30.n # 0
  /\ sum.ind.d7.k = "num"

\* C13: for W in {20, 50, 200} SMA(W) is undefined (nan) when the close series has fewer
\* than W closes, and otherwise is the arithmetic mean of the last W closes.
C13_SimpleMovingAverage ==
  Computed =>
    \A W \in {20, 50, 200} :
       LET c == sum.close
           n == Len(c)
           v == SmaOf(sum.ind, W)
       IN IF n < W
            THEN v.k = "nan"
            ELSE v.k = "num" /\ v.n * W = v.d * SumCells(c, n - W + 1, n)

\* a series of exactly 200 closes that are not all equal: SMA(200) is defined and differs
\* from SMA(20)
C13_Witness ==
  /\ Computed
  /\ Len(sum.close) = 200
  /\ sum.ind.sma200.k = "num"
  /\ sum.ind.sma20.k = "num"
  /\ sum.ind.sma200 # sum.ind.sma20

\* the day-over-day differences d[i] = close[i] - close[i-1] of the window that ends at i
WindowDiffs(c, i) == {c[j] - c[j - 1] : j \in (i - RSI_PERIOD + 1)..i}

\* C14: in rsi_series, at a position whose 14-period average loss is 0 (none of its 14
\* differences is negative) the RSI is 100 when the average gain is positive, and
\* undefined when it is 0 as well.
C14_ZeroLossIs100 ==
  Computed =>
    \A i \in (RSI_PERIOD + 1)..Len(sum.close) :
       (\A d \in WindowDiffs(sum.close, i) : d >= 0) =>
          IF \E d \in WindowDiffs(sum.close, i) : d > 0
            THEN sum.rsi[i] = Num(100, 1)
            ELSE sum.rsi[i].k = "nan"

\* C15: every value of rsi_series that is defined is a number in [0, 100].
C15_RsiRange ==
  Computed =>
    \A i \in 1..Len(sum.rsi) :
       sum.rsi[i].k # "nan" =>
          (sum.rsi[i].k = "num" /\ 0 <= sum.rsi[i].n /\ sum.rsi[i].n <= 100 * sum.rsi[i].d)

\* a series whose RSI takes the value 0 and a value strictly between 0 and 100
C15_Witness ==
  /\ Computed
  /\ \E i \in 1..Len(sum.rsi) : sum.rsi[i] = Num(0, 1)
  /\ \E i \in 1..Len(sum.rsi) :
        sum.rsi[i].k = "num" /\ 0 < sum.rsi[i].n /\ sum.rsi[i].n < 100 * sum.rsi[i].d

\* C16: rsi_series(close, 14) is undefined at each of the first 14 positions, and the
\* block reports the RSI as undefined ("n/a") for a series of fewer than 15 closes.
C16_RsiWarmUp ==
  Computed =>
    /\ Len(sum.rsi) = Len(sum.close)
    /\ \A i \in 1..Len(sum.rsi) : i <= RSI_PERIOD => sum.rsi[i].k = "nan"
    /\ Len(sum.close) < RSI_PERIOD + 1 =>
         (sum.ind.rsi.k = "nan" /\ sum.html.rsi = [txt |-> "n/a", cents |-> 0])

\* a series of exactly 15 closes: the 15th RSI is a number, and 14 closes of the same
\* shape would give none
C16_Witness ==
  /\ Computed
  /\ Len(sum.close) = RSI_PERIOD + 1
  /\ sum.rsi[RSI_PERIOD + 1].k = "num"
  /\ sum.html.rsi.txt = "number"

\* t is what a ".2f" format prints for the float x: "n/a" unless x is a finite number,
\* and then the number of hundredths nearest to x
Renders(t, x) ==
  IF x.k = "num"
    THEN t.txt = "number" /\ 2 * Abs(100 * x.n - t.cents * x.d) <= x.d
    ELSE t = [txt |-> "n/a", cents |-> 0]

\* C19: every price, percent-change, SMA and RSI field of the block is the marker "n/a"
\* when its value is None, nan or infinite (a percent change from a close of 0 included),
\* and a number only when the value is finite; then it is that value to two decimals.
C19_UndefinedIsNA ==
  Computed =>
    /\ Renders(sum.html.price, sum.ind.price)
    /\ Renders(sum.html.d1, sum.ind.d1)
    /\ Renders(sum.html.d7, sum.ind.d7)
    /\ Renders(sum.html.d30, sum.ind.d30)
    /\ Renders(sum.html.sma20, sum.ind.sma20)
    /\ Renders(sum.html.sma50, sum.ind.sma50)
    /\ Renders(sum.html.sma200, sum.ind.sma200)
    /\ Renders(sum.html.rsi, sum.ind.rsi)

\* the 1-day change divides by a close of 0 and is infinite, the 7-day change is 0/0,
\* the 30-day change has too little history, SMA(20) is a number
C19_Witness ==
  /\ Computed
  /\ sum.ind.d1.k = "inf" /\ sum.html.d1.txt = "n/a"
  /\ sum.ind.d7.k \in {"nan", "inf"} /\ sum.html.d7.txt = "n/a"
  /\ sum.ind.d30.k = "None" /\ sum.html.d30.txt = "n/a"
  /\ sum.html.sma20.txt = "number"
  /\ sum.html.sma50.txt = "n/a"


\* the candlestick chart of the report, once make_chart_png has drawn one
ChartDrawn == Len(imgs) >= 1 /\ imgs[1].fn = "make_chart_png" /\ imgs[1].kind = "chart"

\* the rows the RSI of the chart is computed on: those of the last
\* CHART_WINDOW_DAYS + RSI_PERIOD rows of the sorted window that have a Close
BufferRows(o) ==
  LET first == Max(1, Len(o) - (CHART_WINDOW_DAYS + RSI_PERIOD) + 1)
  IN SelectSeq(SubSeq(o, first, Len(o)), LAMBDA r : r.Close # NaN)

\* the place of date d in the buffer, and the RSI computed there
PlaceOf(o, d) == CHOOSE p \in 1..Len(BufferRows(o)) : BufferRows(o)[p].Date = d
RsiAtDate(o, d) == rsi_series(Floats(Closes(BufferRows(o))), RSI_PERIOD)[PlaceOf(o, d)]

\* C17: in the chart make_chart_png draws, there are as many plotted RSI values as
\* displayed dates, and the i-th plotted value is the RSI that rsi_series computes at
\* the i-th displayed date, for every window, one with rows that have a Close but no
\* Open, High or Low included.
C17_RsiAlignedWithDates ==
  ChartDrawn =>
    LET c == imgs[1]
    IN /\ Len(c.rsi) = Len(c.dates)
       /\ \A i \in 1..Len(c.dates) : c.rsi[i] = RsiAtDate(c.o, c.dates[i])

\* C18: when the window has fewer than CHART_WINDOW_DAYS + RSI_PERIOD rows, the whole
\* window is the RSI buffer, and every displayed date that has fewer than RSI_PERIOD
\* differences before it in the buffer is plotted with an undefined RSI.
C18_ShortBufferWarmUp ==
  (ChartDrawn /\ Len(imgs[1].o) < CHART_WINDOW_DAYS + RSI_PERIOD) =>
    LET c == imgs[1]
    IN /\ c.buf = Dates(c.o)
       /\ \A i \in 1..Len(c.dates) :
            PlaceOf(c.o, c.dates[i]) - 1 < RSI_PERIOD =>
              (i <= Len(c.rsi) /\ IsNaN(c.rsi[i]))

GetsTo(src, by) == SelectSeq(gets, LAMBDA g : g.src = src /\ g.by = by)
\* one invocation with a symbol makes one GET, one without makes none
OneGetIfMade(a, src, by) == Len(GetsTo(src, by)) = (IF a.made THEN 1 ELSE 0)

\* C22: every invocation of fetch_stooq or fetch_fred_close_series makes at most one
\* GET, also when the GET or the parsing failed (no second try), and for a ticker
\* without a symbol for a source no GET goes to that source: the log holds one GET per
\* invocation that had a symbol, addressed to that symbol, and nothing else.
C22_OneGetNoRetry ==
  /\ OneGetIfMade(stqTry, "stooq", "fetch_prices")
  /\ OneGetIfMade(fredTry, "fred", "fetch_prices")
  /\ OneGetIfMade(sum.fredTry, "fred", "build_summary_block")
  /\ GetsTo("stooq", "build_summary_block") = <<>>
  /\ Len(gets) <= 3
  /\ tkr \notin DOMAIN STQ_SYMBOLS => \A i \in 1..Len(gets) : gets[i].src # "stooq"
  /\ tkr \notin DOMAIN FRED_IDS => \A i \in 1..Len(gets) : gets[i].src # "fred"
  /\ \A i \in 1..Len(gets) :
       /\ gets[i].src = "stooq" => gets[i].sym = STQ_SYMBOLS[tkr]
       /\ gets[i].src = "fred" => gets[i].sym = FRED_IDS[tkr]

\* both fetchers were invoked and both failed: two GETs in all, none repeated
C22_Witness ==
  /\ pc = "done"
  /\ stqTry.made /\ stqTry.kind \in FailKinds
  /\ fredTry.made /\ fredTry.kind \in FailKinds
  /\ Len(gets) = 2


\* the series the invocations of fetch_fred_close_series returned so far
FredSeries == {a.out.rows : a \in {b \in {fredTry, sum.fredTry} : b.out.st = "df"}}

\* C23: in every series fetch_fred_close_series returns, the Open of a row is the Close
\* of the row before it (its own Close in the first row), High is the larger and Low the
\* smaller of Open and Close, so High >= Open, High >= Close, Low <= Open, Low <= Close.
C23_PseudoOHLC ==
  \A rows \in FredSeries : \A i \in 1..Len(rows) :
    LET r == rows[i]
    IN /\ r.Open = (IF i = 1 THEN r.Close ELSE rows[i - 1].Close)
       /\ r.High \in {r.Open, r.Close} /\ r.High >= r.Open /\ r.High >= r.Close
       /\ r.Low \in {r.Open, r.Close} /\ r.Low <= r.Open /\ r.Low <= r.Close

\* fetch_prices returned a FRED series in which the close falls and rises
C23_Witness ==
  /\ Returned
  /\ res.source = "fred"
  /\ \E i, j \in 1..Len(fredTry.out.rows) :
       /\ fredTry.out.rows[i].Open < fredTry.out.rows[i].Close
       /\ fredTry.out.rows[j].Open > fredTry.out.rows[j].Close


\* build_summary_block merged the primary series with a non-empty FRED series
Merged == pc = "done" /\ sum.kind = "block" /\ HasRows(sum.fredTry.out)
SameOHL(a, b) == a.Open = b.Open /\ a.High = b.High /\ a.Low = b.Low

\* C24: the reconciliation touches the Close column only: the merged series has the
\* columns Date, Open, High, Low, Close; each primary row is in it with its own Open,
\* High and Low, each merged row of a primary date has the Open, High and Low of a
\* primary row of that date, and each row of a date only FRED has carries no Open, High
\* or Low, FRED's pseudo-OHLC included.
C24_CloseOnlyMerge ==
  Merged =>
    LET p == sum.df0
        m == sum.df
    IN /\ \A i \in 1..Len(m) : DOMAIN m[i] = {"Date", "Open", "High", "Low", "Close"}
       /\ \A j \in 1..Len(p) : \E i \in 1..Len(m) : m[i].Date = p[j].Date /\ SameOHL(m[i], p[j])
       /\ \A i \in 1..Len(m) :
            IF m[i].Date \in DateSet(p)
              THEN \E j \in 1..Len(p) : p[j].Date = m[i].Date /\ SameOHL(m[i], p[j])
              ELSE m[i].Open = NaN /\ m[i].High = NaN /\ m[i].Low = NaN

\* the merged series has a row only FRED brought, whose FRED Open is a number, and a
\* primary row without Open on a date for which FRED has one
C24_Witness ==
  /\ Merged
  /\ \E i \in 1..Len(sum.fredTry.out.rows) :
       /\ sum.fredTry.out.rows[i].Date \notin DateSet(sum.df0)
       /\ sum.fredTry.out.rows[i].Open # NaN
  /\ \E j \in 1..Len(sum.df0) :
       /\ sum.df0[j].Open = NaN
       /\ sum.df0[j].Date \in DateSet(sum.fredTry.out.rows)


\* the attempt got an HTTP-ok response whose JSON has ok = true
Success(r) == ~r.raised /\ r.http_ok /\ r.json = "true"
AllFailed == \A k \in 1..Len(tg.posts) : ~Success(tg.posts[k])

\* C25: tg_call makes at most retries POSTs; it returns at the first attempt that gets
\* an HTTP-ok response with JSON ok = true, so no attempt follows a success; it raises
\* RuntimeError exactly when retries attempts were made and all failed; an attempt that
\* raised an exception is one of the failed attempts and the loop goes on after it.
C25_TgCallRetries ==
  /\ pc \in {"tg_loop", "tg_returned", "tg_raised"}
  /\ Len(tg.posts) <= tg.retries
  /\ \A k \in 1..(Len(tg.posts) - 1) : ~Success(tg.posts[k])
  /\ pc = "tg_returned" <=> (tg.posts # <<>> /\ Success(tg.posts[Len(tg.posts)]))
  /\ pc = "tg_raised" => (Len(tg.posts) = tg.retries /\ AllFailed)
  /\ (pc = "tg_loop" /\ Len(tg.posts) = tg.retries) => ENABLED TgRaise
  /\ pc = "tg_loop" => (AllFailed /\ tg.i = Len(tg.posts))

\* the first attempt raised, the second got an error answer, the third succeeded
C25_Witness ==
  /\ pc = "tg_returned"
  /\ Len(tg.posts) = 3
  /\ tg.posts[1].raised
  /\ ~tg.posts[2].raised /\ ~tg.posts[2].http_ok
  /\ tg.last_err = "r.text"


\* the places of the log at which work of one kind was done for ticker t
WorkAt(ops, t) == {i \in 1..Len(log) : log[i].op \in ops /\ log[i].of = t}

\* C21: in the report over WTI and BRENT, the fetch, the reconciliation and the
\* indicator computation of WTI are all done before the fetch of BRENT begins: nothing
\* of WTI's work is logged after BRENT's fetch.
C21_TickerByTicker ==
  \A i \in WorkAt({"fetch_prices", "reconcile", "indicators"}, "WTI") :
    \A j \in WorkAt({"fetch_prices"}, "BRENT") : i < j

\* the report has ended, after the text was sent and the try block was entered
Ended ==
  /\ pc \in {"end", "raised"}
  /\ \E i \in 1..Len(log) : log[i].op = "send_text" /\ log[i].ok
\* the calls of os.remove in the log
RemoveCalls == SelectSeq(log, LAMBDA e : e.op = "os.remove")

\* C26: when the report ends after chart generation has started, os.remove has been
\* called once for every path recorded in tmpfiles, in order, whether the report ends
\* normally or with the exception of a chart function or of the send; a call that failed
\* did not stop the later ones, and every path whose removal did not fail is gone.
C26_TmpfilesRemoved ==
  Ended =>
    /\ Len(RemoveCalls) = Len(tmpfiles)
    /\ \A i \in 1..Len(tmpfiles) :
         /\ RemoveCalls[i].of = tmpfiles[i]
         /\ RemoveCalls[i].ok => tmpfiles[i] \notin disk
    /\ (pc = "raised") <=>
         (\E i \in 1..Len(log) :
            log[i].op \in {"make", "send_album", "send_photo"} /\ ~log[i].ok)

\* a chart function of BRENT raised after four images were recorded, the removal of the
\* first image failed and the three later ones were removed
C26_Witness ==
  /\ pc = "raised"
  /\ Len(tmpfiles) = 4
  /\ Len(RemoveCalls) = 4
  /\ ~RemoveCalls[1].ok
  /\ tmpfiles[1] \in disk
  /\ \A i \in 2..4 : tmpfiles[i] \notin disk

====
